---- MODULE Spec2Model ----
(***************************************************************************)
(* A model of torchfilter.train.train_filter                               *)
(* (src/torchfilter/train/_train_filter.py): one epoch of end-to-end       *)
(* training of a recurrent filter over a subsequence dataset.              *)
(*                                                                         *)
(* Tensors are nested sequences (a tensor of shape (A, B, ...) is a        *)
(* sequence of A sequences of length B ...); Python index i is TLA+ index  *)
(* i + 1.  The external objects (the dataloader, the filter model, the     *)
(* loss function, the buddy and the random sampler) are modelled by what   *)
(* train_filter hands them and by a nondeterministic choice of what they   *)
(* hand back.                                                              *)
(***************************************************************************)
EXTENDS Integers, Sequences, FiniteSets, TLC

\* ------------------------------------------------------------------ bounds

\* Largest number of minibatches the dataloader yields (len(dataloader)).
MaxBatches == 3
\* Largest number of trajectories in a minibatch.
MaxN == 2
\* Largest log_interval; the docstring makes it a count of minibatches
\* between two logs, so it is at least 1.
MaxLogInterval == 2

\* Subsequence lengths T of the dataset: the shortest one that leaves a step
\* to predict, and a longer one.
SeqLens == {2, 3}
\* Values of filter_model.state_dim and of the last axis of the states.
StateDims == {1, 2}
\* Values on the diagonal of initial_covariance.
CovScales == {2}
\* What the sampler adds to the mean of the Gaussian (every component).
Noise == {0, 1}
\* What loss_function returns.
LossValues == {1, 2}
\* Values of the optimizer_name keyword ("train_filter_recurrent" by default).
OptimizerNames == {"train_filter_recurrent", "adam_b"}

VARIABLES
    pc,                     \* position in train_filter
    error,                  \* the exception that ended the call, "" if none
    initial_covariance,     \* argument: a matrix
    log_interval,           \* argument
    measurement_initialize, \* argument
    optimizer_name,         \* argument
    filter_model,           \* argument: [state_dim, training, is_vsekf]
    dataloader,             \* argument: [is_subsequence, batch_size, len, seq_len]
    belief,                 \* filter_model's belief: [batch, advanced]
    batch_idx,              \* enumerate's index, -1 before the first batch
    batch_data,             \* the batch as loaded: (N, T, ...) tensors
    states_labels,          \* local, time-major
    observations,           \* local, time-major
    controls,               \* local, time-major
    state_predictions,      \* local: forward_loop's result
    loss,                   \* local: loss_function's result
    epoch_loss,             \* local: running sum of the losses
    init_call,              \* arguments of the last belief initialization
    forward_call,           \* arguments of the last forward_loop
    loss_call,              \* arguments of the last loss_function call
    trace,                  \* calls on the external objects, in order
    minimize_calls,         \* buddy.minimize calls, in order
    log_calls,              \* buddy.log_scalar calls, in order
    stdout                  \* what print wrote

args == <<initial_covariance, log_interval, measurement_initialize,
          optimizer_name, filter_model, dataloader>>
locals == <<batch_idx, batch_data, states_labels, observations, controls,
            state_predictions, loss, epoch_loss>>
calls == <<init_call, forward_call, loss_call>>
effects == <<belief, trace, minimize_calls, log_calls, stdout>>
vars == <<pc, error, args, locals, calls, effects>>

\* ----------------------------------------------------------------- tensors

\* The value of a local that is not bound yet.
None == <<>>

\* The leading two dimensions of a tensor.
Shape2(tensor) == <<Len(tensor), IF Len(tensor) = 0 THEN 0 ELSE Len(tensor[1])>>

\* The three dimensions of a tensor.
Shape3(tensor) ==
    <<Len(tensor),
      IF Len(tensor) = 0 THEN 0 ELSE Len(tensor[1]),
      IF Len(tensor) = 0 \/ Len(tensor[1]) = 0 THEN 0 ELSE Len(tensor[1][1])>>

\* torch.transpose(tensor, 0, 1): (N, T, ...) becomes (T, N, ...).
_swap_batch_sequence_axes(tensor) ==
    [t \in 1..Shape2(tensor)[2] |-> [n \in 1..Shape2(tensor)[1] |-> tensor[n][t]]]

\* Numbers that a division may have produced: num / den.
Rat(i) == [num |-> i, den |-> 1]
RatAdd(r, i) == [num |-> r.num + i * r.den, den |-> r.den]
RatDiv(r, n) == [num |-> r.num, den |-> r.den * n]
RatEq(r, s) == r.num * s.den = s.num * r.den

\* ------------------------------------------------------------ the dataset

\* The ground-truth state of trajectory n of batch k at time t: each
\* component carries its place, so that no two places hold the same value.
StateAt(k, n, t, dim) == [d \in 1..dim |-> 1000 * k + 100 * n + 10 * t + d]

\* The observation and the control of trajectory n of batch k at time t.
ObsAt(k, n, t) == <<"obs", k, n, t>>
ControlAt(k, n, t) == <<"ctrl", k, n, t>>

\* A batch of a TrajectoryTorch: states of shape (N, T, dim), observations of
\* shape oshape + (...), controls of shape cshape + (...).
Batch(k, N, T, dim, oshape, cshape) ==
    [states |-> [n \in 1..N |-> [t \in 1..T |-> StateAt(k, n, t, dim)]],
     observations |-> [n \in 1..oshape[1] |-> [t \in 1..oshape[2] |-> ObsAt(k, n, t)]],
     controls |-> [n \in 1..cshape[1] |-> [t \in 1..cshape[2] |-> ControlAt(k, n, t)]]]

\* The batches the dataloader may yield as its k-th: one that train_filter
\* accepts, or one in which one field departs from what it asserts (states
\* of another state_dim, observations of one trajectory more, controls of
\* one timestep more).
Batches(k, T, model_dim) ==
    UNION {
        {Batch(k, N, T, dim, <<N, T>>, <<N, T>>) : dim \in StateDims}
        \cup {Batch(k, N, T, model_dim, <<N + 1, T>>, <<N, T>>),
              Batch(k, N, T, model_dim, <<N, T>>, <<N, T + 1>>)}
        : N \in 1..MaxN}

\* A matrix of shape (rows, cols) with s on its diagonal.
Matrix(rows, cols, s) ==
    [i \in 1..rows |-> [j \in 1..cols |-> IF i = j THEN s ELSE 0]]

\* ------------------------------------------------------------------- Init

NoCall == [op |-> "none"]

Init ==
    /\ pc = "entry"
    /\ error = ""
    /\ initial_covariance \in
         {Matrix(r, c, s) : r \in StateDims, c \in StateDims, s \in CovScales}
    /\ log_interval \in 1..MaxLogInterval
    /\ measurement_initialize \in BOOLEAN
    /\ optimizer_name \in OptimizerNames
    /\ filter_model \in
         [state_dim : StateDims, training : BOOLEAN, is_vsekf : BOOLEAN]
    /\ dataloader \in
         [is_subsequence : BOOLEAN, batch_size : 1..MaxN,
          len : 0..MaxBatches, seq_len : SeqLens]
    /\ belief = [batch |-> -1, advanced |-> FALSE]
    /\ batch_idx = -1
    /\ batch_data = None
    /\ states_labels = None
    /\ observations = None
    /\ controls = None
    /\ state_predictions = None
    /\ loss = 0
    /\ epoch_loss = Rat(0)
    /\ init_call = NoCall
    /\ forward_call = NoCall
    /\ loss_call = NoCall
    /\ trace = <<>>
    /\ minimize_calls = <<>>
    /\ log_calls = <<>>
    /\ stdout = <<>>

\* The call ends with an exception.
Raise(e) ==
    /\ pc' = "aborted"
    /\ error' = e

\* ------------------------------------------------------------------ entry

\* The entry assertions without the check of the training mode.
EntryAsserts_NoTrainingCheck ==
    /\ dataloader.is_subsequence
    /\ Shape2(initial_covariance) = <<filter_model.state_dim, filter_model.state_dim>>

\* Lines 48-50: the three assertions at the head of train_filter.
EntryAsserts ==
    /\ dataloader.is_subsequence
    /\ Shape2(initial_covariance) = <<filter_model.state_dim, filter_model.state_dim>>
    /\ filter_model.training

\* Lines 47-53: the entry assertions, then epoch_loss = 0.0.
Entry ==
    /\ pc = "entry"
    /\ IF EntryAsserts
       THEN /\ pc' = "loop"
            /\ error' = error
       ELSE Raise("AssertionError: entry")
    /\ epoch_loss' = Rat(0)
    /\ UNCHANGED <<args, batch_idx, batch_data, states_labels, observations,
                   controls, state_predictions, loss, calls, effects>>

\* ------------------------------------------------------------ the loop

\* The batch-size assertion applied to every batch.
BatchSizeOk_EveryBatch(idx, N, batch_size) == N = batch_size

\* Line 77: only the first batch has to hold batch_size trajectories.
BatchSizeOk(idx, N, batch_size) == idx /= 0 \/ N = batch_size

\* Lines 72-77: the first shape assertion that fails, "" if none does.
ShapeChecks(labels, obs, ctrl, idx) ==
    LET T == Shape3(labels)[1]
        N == Shape3(labels)[2]
        state_dim == Shape3(labels)[3]
    IN  IF state_dim /= filter_model.state_dim THEN "AssertionError: state_dim"
        ELSE IF Shape2(obs) /= <<T, N>> THEN "AssertionError: observations"
        ELSE IF Shape2(ctrl) /= <<T, N>> THEN "AssertionError: controls"
        ELSE IF ~BatchSizeOk(idx, N, dataloader.batch_size)
             THEN "AssertionError: batch_size"
        ELSE ""

\* A loop that asks for one batch more than the dataloader holds.
HasNext_OneMore(idx, len) == idx < len

\* Line 57: whether the dataloader's iterator yields another batch after the
\* one enumerate gave index idx.
HasNext(idx, len) == idx + 1 < len

\* Lines 57-77: enumerate(tqdm(dataloader)) yields the next batch, which is
\* unpacked, swapped to time-major and checked; or the loop ends.
NextBatch ==
    /\ pc = "loop"
    /\ IF HasNext(batch_idx, dataloader.len)
       THEN /\ \E b \in Batches(batch_idx + 1, dataloader.seq_len,
                                filter_model.state_dim) :
                 batch_data' = b
            /\ batch_idx' = batch_idx + 1
            /\ states_labels' = _swap_batch_sequence_axes(batch_data'.states)
            /\ observations' = _swap_batch_sequence_axes(batch_data'.observations)
            /\ controls' = _swap_batch_sequence_axes(batch_data'.controls)
            /\ LET e == ShapeChecks(states_labels', observations', controls',
                                    batch_idx')
               IN  IF e = ""
                   THEN /\ pc' = "init"
                        /\ error' = error
                   ELSE Raise(e)
       ELSE /\ pc' = "epilogue"
            /\ UNCHANGED <<error, batch_idx, batch_data, states_labels,
                           observations, controls>>
    /\ UNCHANGED <<args, state_predictions, loss, epoch_loss, calls, effects>>

\* Python's sequence[0] and sequence[1:].
First(tensor) == tensor[1]
From1(tensor) == Tail(tensor)

\* Lines 93-95: initial_covariance[None, :, :].expand((N, state_dim, state_dim)).
InitialStatesCovariance(covariance, N) == [n \in 1..N |-> covariance]

\* A Gaussian centred at the states of time index 1.
InitialStatesLoc_Second(labels) == labels[2]

\* Line 97: the centre of the Gaussian the initial states are drawn from.
InitialStatesLoc(labels) == First(labels)

\* Line 89: what the virtual sensor initializes the belief from.
InitialObservations(obs) == First(obs)

\* The virtual-sensor path taken without the isinstance assertion.
VirtualSensorSupported_Unchecked == TRUE

\* Lines 81-83: virtual_sensor_initialize_beliefs exists on virtual sensor
\* EKFs only.
VirtualSensorSupported == filter_model.is_vsekf

\* torch.distributions.MultivariateNormal(loc, covariance_matrix).sample(),
\* when the sampler's noise is eps on every component.
Sample(distribution, eps) ==
    [n \in 1..Len(distribution.loc) |->
        [d \in 1..Len(distribution.loc[n]) |-> distribution.loc[n][d] + eps]]

Event(op) == [op |-> op, idx |-> batch_idx]

\* Lines 79-102: populate the initial filter belief.
PopulateBelief ==
    /\ IF measurement_initialize
       THEN IF VirtualSensorSupported
            THEN /\ init_call' =
                      [op |-> "virtual_sensor_initialize_beliefs",
                       observations |-> InitialObservations(observations)]
                 /\ trace' = Append(trace, Event("virtual_sensor_initialize_beliefs"))
                 /\ belief' = [batch |-> batch_idx, advanced |-> FALSE]
                 /\ pc' = "forward"
                 /\ error' = error
            ELSE /\ Raise("AssertionError: Only supported for virtual sensor EKFs!")
                 /\ UNCHANGED <<init_call, trace, belief>>
       ELSE LET N == Shape3(states_labels)[2]
                initial_states_covariance ==
                    InitialStatesCovariance(initial_covariance, N)
                distribution ==
                    [loc |-> InitialStatesLoc(states_labels),
                     covariance_matrix |-> initial_states_covariance]
            IN  \E eps \in Noise :
                    /\ init_call' =
                         [op |-> "initialize_beliefs",
                          mean |-> Sample(distribution, eps),
                          covariance |-> initial_states_covariance,
                          distribution |-> distribution]
                    /\ trace' = Append(trace, Event("initialize_beliefs"))
                    /\ belief' = [batch |-> batch_idx, advanced |-> FALSE]
                    /\ pc' = "forward"
                    /\ error' = error
    /\ UNCHANGED <<args, locals, forward_call, loss_call, minimize_calls,
                   log_calls, stdout>>

\* The belief populated before the first batch only.
InitBelief_FirstBatchOnly ==
    /\ pc = "init"
    /\ IF batch_idx = 0
       THEN PopulateBelief
       ELSE /\ pc' = "forward"
            /\ UNCHANGED <<error, args, locals, calls, effects>>

\* Lines 79-102, at the head of every iteration of the loop.
InitBelief ==
    /\ pc = "init"
    /\ PopulateBelief

\* The predictions forward_loop may return for a batch of shape (T, N,
\* state_dim): of the asserted shape, one timestep more, one trajectory more.
PredictionShapes(T, N, state_dim) ==
    {<<T - 1, N, state_dim>>, <<T, N, state_dim>>, <<T - 1, N + 1, state_dim>>}

Prediction(k, shape) ==
    [i \in 1..shape[1] |-> [n \in 1..shape[2] |->
        [d \in 1..shape[3] |-> <<"pred", k, i, n, d>>]]]

\* forward_loop's result taken as it comes.
PredictionShapeOk_Unchecked(predictions, labels) == TRUE

\* Line 109: the shape forward_loop's result is asserted to have.
PredictionShapeOk(predictions, labels) ==
    Shape3(predictions) =
        <<Shape3(labels)[1] - 1, Shape3(labels)[2], Shape3(labels)[3]>>

\* Lines 104-109: the forward pass from the first state.
ForwardLoop ==
    /\ pc = "forward"
    /\ forward_call' =
         [op |-> "forward_loop",
          observations |-> From1(observations),
          controls |-> From1(controls),
          belief |-> belief]
    /\ belief' = [belief EXCEPT !.advanced = TRUE]
    /\ trace' = Append(trace, Event("forward_loop"))
    /\ \E shape \in PredictionShapes(Shape3(states_labels)[1],
                                     Shape3(states_labels)[2],
                                     Shape3(states_labels)[3]) :
           state_predictions' = Prediction(batch_idx, shape)
    /\ IF PredictionShapeOk(state_predictions', states_labels)
       THEN /\ pc' = "minimize"
            /\ error' = error
       ELSE Raise("AssertionError: state_predictions")
    /\ UNCHANGED <<args, batch_idx, batch_data, states_labels, observations,
                   controls, loss, epoch_loss, init_call, loss_call,
                   minimize_calls, log_calls, stdout>>

\* The predictions compared with the states of time indices 0..T-2.
LossTarget_Front(labels) == SubSeq(labels, 1, Len(labels) - 1)

\* Line 112: the ground truth the predictions are compared with.
LossTarget(labels) == From1(labels)

\* Line 113: the optimizer buddy.minimize is told to step.
MinimizeOptimizer == optimizer_name

\* Lines 111-114: the loss, the gradient step, the running sum.
Minimize ==
    /\ pc = "minimize"
    /\ loss_call' = [op |-> "loss_function", input |-> state_predictions,
                     target |-> LossTarget(states_labels)]
    /\ \E l \in LossValues : loss' = l
    /\ minimize_calls' =
         Append(minimize_calls,
                [idx |-> batch_idx, loss |-> loss',
                 optimizer_name |-> MinimizeOptimizer])
    /\ trace' = Append(trace, Event("minimize"))
    /\ epoch_loss' = RatAdd(epoch_loss, loss')
    /\ pc' = "log"
    /\ UNCHANGED <<error, args, batch_idx, batch_data, states_labels,
                   observations, controls, state_predictions, init_call,
                   forward_call, belief, log_calls, stdout>>

\* A log at the end of every interval instead of at its start.
ShouldLog_IntervalEnd(idx, interval) == (idx + 1) % interval = 0

\* Line 117: whether this minibatch is logged.
ShouldLog(idx, interval) == idx % interval = 0

\* Lines 116-119: the Tensorboard log.
Logging ==
    /\ pc = "log"
    /\ IF ShouldLog(batch_idx, log_interval)
       THEN /\ log_calls' =
                 Append(log_calls,
                        [idx |-> batch_idx, scope |-> "train_filter_recurrent",
                         name |-> "Training loss", value |-> loss])
            /\ trace' = Append(trace, Event("log_scalar"))
       ELSE UNCHANGED <<log_calls, trace>>
    /\ pc' = "loop"
    /\ UNCHANGED <<error, args, locals, calls, belief, minimize_calls, stdout>>

\* The sum of the losses printed as it is.
MeanLoss_NoDivision(sum, n) == sum

\* Line 122: epoch_loss / len(dataloader).
MeanLoss(sum, n) == RatDiv(sum, n)

\* Lines 121-123: the mean of the losses, printed.  A float divided by the
\* int 0 raises ZeroDivisionError.
Epilogue ==
    /\ pc = "epilogue"
    /\ IF dataloader.len = 0
       THEN /\ Raise("ZeroDivisionError")
            /\ UNCHANGED <<epoch_loss, stdout>>
       ELSE /\ epoch_loss' = MeanLoss(epoch_loss, dataloader.len)
            /\ stdout' = Append(stdout,
                                <<"(train_filter) Epoch training loss: ", epoch_loss'>>)
            /\ pc' = "done"
            /\ error' = error
    /\ UNCHANGED <<args, batch_idx, batch_data, states_labels, observations,
                   controls, state_predictions, loss, calls, belief, trace,
                   minimize_calls, log_calls>>

Next ==
    \/ Entry
    \/ NextBatch
    \/ InitBelief
    \/ ForwardLoop
    \/ Minimize
    \/ Logging
    \/ Epilogue

Spec == Init /\ [][Next]_vars

\* train_filter is one sequential call: it takes its next step until it
\* returns or raises.
FairSpec == Spec /\ WF_vars(Next)

\* ------------------------------------------------------------ properties

Terminated == pc \in {"done", "aborted"}

\* The assertion failures train_filter can end with.
EntryError == "AssertionError: entry"
BatchErrors ==
    {"AssertionError: state_dim", "AssertionError: observations",
     "AssertionError: controls", "AssertionError: state_predictions"}
AssertionErrors ==
    {EntryError, "AssertionError: batch_size",
     "AssertionError: Only supported for virtual sensor EKFs!"} \cup BatchErrors

\* The current batch as the dataloader yielded it: its sizes, and what the
\* shape assertions of the loop ask of it.
BatchN == Len(batch_data.states)
BatchT == Len(batch_data.states[1])
BatchPasses ==
    /\ Len(batch_data.states[1][1]) = filter_model.state_dim
    /\ Len(batch_data.observations) = BatchN
    /\ Len(batch_data.observations[1]) = BatchT
    /\ Len(batch_data.controls) = BatchN
    /\ Len(batch_data.controls[1]) = BatchT

\* The positions of train_filter inside the body of the loop, after the
\* shape checks.
InBody == pc \in {"init", "forward", "minimize", "log"}

\* The belief was initialized, and forward_loop has run, in the current batch.
InitializedHere == batch_idx >= 0 /\ belief.batch = batch_idx
ForwardedHere == InitializedHere /\ belief.advanced

\* The calls of trace made for batch k, in order.
OpsOf(k) ==
    LET mine == SelectSeq(trace, LAMBDA e : e.idx = k)
    IN  [i \in 1..Len(mine) |-> mine[i].op]

InitOps == {"initialize_beliefs", "virtual_sensor_initialize_beliefs"}

IsPrefix(a, b) == Len(a) <= Len(b) /\ \A i \in 1..Len(a) : a[i] = b[i]

RECURSIVE SumLosses(_)
SumLosses(calls_) ==
    IF calls_ = <<>> THEN 0 ELSE Head(calls_).loss + SumLosses(Tail(calls_))

\* What C1 asks of every state of the call.
C1_StepPerBatch ==
    /\ Len(minimize_calls) <= dataloader.len
    /\ \A i \in 1..Len(minimize_calls) :
          /\ minimize_calls[i].idx = i - 1
          /\ minimize_calls[i].optimizer_name = optimizer_name
    /\ pc = "log" =>
          /\ Len(minimize_calls) = batch_idx + 1
          /\ batch_data \in Batches(batch_idx, dataloader.seq_len,
                                    filter_model.state_dim)
          /\ loss_call.target[1][1] = batch_data.states[1][2]
    /\ (pc \in {"epilogue", "done"} \/ (pc = "aborted" /\ error \notin AssertionErrors))
          => Len(minimize_calls) = dataloader.len

\* C1: one call trains for exactly one epoch.  The call always ends; the
\* buddy.minimize calls are those of batches 0, 1, 2, ... in this order, each
\* batch at most once and with the optimizer_name of the call; the batch a
\* gradient step is taken for is the one the dataloader yielded at that
\* index; and once the loop has ended without an assertion failure there
\* are exactly len(dataloader) of them.
C1_OneEpoch == <>Terminated /\ []C1_StepPerBatch
C1_Witness ==
    /\ pc = "done"
    /\ dataloader.len >= 2
    /\ Len(minimize_calls) = dataloader.len

\* The entry preconditions, as the docstring and the assertions state them.
C2_Preconditions ==
    /\ dataloader.is_subsequence
    /\ Len(initial_covariance) = filter_model.state_dim
    /\ Len(initial_covariance[1]) = filter_model.state_dim
    /\ filter_model.training

\* C2: when an entry precondition is violated (the dataset is no
\* SubsequenceDataset, initial_covariance is not state_dim x state_dim, or
\* the model is not in training mode) the call ends with an assertion
\* failure before any batch is read: no belief initialization, forward_loop,
\* minimize, log_scalar or print happens.
C2_EntryAbort ==
    ~C2_Preconditions =>
        /\ pc \in {"entry", "aborted"}
        /\ pc = "aborted" => error = EntryError
        /\ batch_idx = -1 /\ batch_data = None
        /\ init_call = NoCall /\ forward_call = NoCall /\ loss_call = NoCall
        /\ trace = <<>> /\ minimize_calls = <<>> /\ log_calls = <<>>
        /\ stdout = <<>>
C2_Witness ==
    /\ pc = "aborted"
    /\ dataloader.is_subsequence
    /\ Len(initial_covariance) = filter_model.state_dim
    /\ Len(initial_covariance[1]) = filter_model.state_dim
    /\ ~filter_model.training
    /\ dataloader.len >= 1

\* What C3 asks of the belief a batch starts from.
C3_BeliefOfBatch ==
    (~measurement_initialize /\ pc \in {"forward", "minimize", "log"}) =>
        /\ InitializedHere
        /\ init_call.op = "initialize_beliefs"
        /\ init_call.covariance = [n \in 1..BatchN |-> initial_covariance]
        /\ init_call.distribution.covariance_matrix = init_call.covariance
        /\ init_call.distribution.loc = [n \in 1..BatchN |-> batch_data.states[n][1]]
        /\ \E eps \in Noise :
              init_call.mean =
                  [n \in 1..BatchN |->
                      [d \in 1..filter_model.state_dim |->
                          batch_data.states[n][1][d] + eps]]

\* C3: with measurement_initialize false, the belief every batch starts from
\* is the one handed to initialize_beliefs: for each of the N trajectories
\* the covariance is the caller's initial_covariance and the mean is a
\* sample of the Gaussian centred at that trajectory's ground-truth state of
\* time index 0 with that covariance; initial_covariance never changes.
C3_InitialBelief ==
    []C3_BeliefOfBatch /\ [][initial_covariance' = initial_covariance]_vars
C3_Witness ==
    /\ ~measurement_initialize
    /\ pc = "forward"
    /\ batch_idx >= 1
    /\ BatchN = 2
    /\ init_call.mean /= init_call.distribution.loc

\* The logging step of batch i is behind.
C4_LoggingDone(i) == i < batch_idx \/ (i = batch_idx /\ pc \in {"loop", "epilogue", "done"})

\* C4: log_scalar("Training loss", loss) is called for batch i exactly when
\* i % log_interval = 0 (batch 0 is logged, two consecutive logs are
\* log_interval batches apart), in the scope "train_filter_recurrent", with
\* the loss of that batch, right after buddy.minimize of that batch.
C4_Logging ==
    /\ \A j \in 1..Len(log_calls) :
          /\ log_calls[j].idx % log_interval = 0
          /\ log_calls[j].scope = "train_filter_recurrent"
          /\ log_calls[j].name = "Training loss"
          /\ log_calls[j].idx + 1 <= Len(minimize_calls)
          /\ log_calls[j].value = minimize_calls[log_calls[j].idx + 1].loss
          /\ log_calls[j].idx = (j - 1) * log_interval
    /\ \A i \in 0..batch_idx :
          (C4_LoggingDone(i) /\ i % log_interval = 0) =>
              \E j \in 1..Len(log_calls) : log_calls[j].idx = i
    /\ \A p \in 1..Len(trace) :
          trace[p].op = "log_scalar" =>
              /\ p > 1
              /\ trace[p - 1] = [op |-> "minimize", idx |-> trace[p].idx]
C4_Witness ==
    /\ log_interval = 2
    /\ pc = "done"
    /\ Len(minimize_calls) = 3
    /\ Len(log_calls) = 2
    /\ minimize_calls[1].loss /= minimize_calls[3].loss

\* C5 as stated: whenever the call ends without an assertion failure, also
\* for a dataloader of zero batches, the epoch training loss has been
\* printed exactly once.
C5_PrintsForEveryLoader ==
    (Terminated /\ error \notin AssertionErrors) => Len(stdout) = 1

\* C5, amended: for a dataloader of at least one batch whose batches all
\* pass the assertions, the epoch training loss is printed exactly once,
\* after the last batch, and is the sum of the per-batch losses divided by
\* len(dataloader); for a dataloader of zero batches the division raises
\* ZeroDivisionError and nothing is printed.
C5_MeanPrinted ==
    /\ Len(stdout) <= 1
    /\ Len(stdout) = 1 =>
          /\ pc = "done"
          /\ Len(minimize_calls) = dataloader.len
          /\ stdout[1][1] = "(train_filter) Epoch training loss: "
          /\ RatEq(stdout[1][2],
                   [num |-> SumLosses(minimize_calls), den |-> dataloader.len])
    /\ (Terminated /\ error \notin AssertionErrors /\ dataloader.len >= 1)
          => (pc = "done" /\ Len(stdout) = 1)
    /\ (Terminated /\ error \notin AssertionErrors /\ dataloader.len = 0)
          => (error = "ZeroDivisionError" /\ stdout = <<>>)
C5_Witness ==
    /\ pc = "done"
    /\ dataloader.len = 3
    /\ SumLosses(minimize_calls) = 4
    /\ Len(stdout) = 1
C5_WitnessEmpty ==
    /\ pc = "aborted"
    /\ dataloader.len = 0
    /\ error = "ZeroDivisionError"

\* The calls made for batch k, in the order the loop body makes them.
C6_BatchOrder(k) ==
    LET ops == OpsOf(k)
    IN  /\ \E init \in InitOps :
              IsPrefix(ops, <<init, "forward_loop", "minimize", "log_scalar">>)
        /\ k < batch_idx => Len(ops) >= 3

\* C6: within a batch the calls come in a fixed order: one belief
\* initialization, one forward_loop, one buddy.minimize, then the optional
\* log; forward_loop runs on a belief initialized in its own batch and not
\* advanced since; no call of a batch precedes a call of an earlier batch,
\* and every batch before the current one got its gradient step.
C6_CallOrder ==
    /\ \A k \in 0..batch_idx : C6_BatchOrder(k)
    /\ \A p \in 1..Len(trace) :
          /\ trace[p].idx \in 0..batch_idx
          /\ p > 1 => trace[p - 1].idx <= trace[p].idx
    /\ (pc \in {"minimize", "log"} \/ (pc = "aborted" /\ ForwardedHere)) =>
          /\ forward_call.op = "forward_loop"
          /\ forward_call.belief = [batch |-> batch_idx, advanced |-> FALSE]
    /\ pc \in {"forward", "minimize", "log"} => InitializedHere
C6_Witness ==
    /\ batch_idx = 2
    /\ pc = "log"
    /\ OpsOf(0) = <<"initialize_beliefs", "forward_loop", "minimize", "log_scalar">>
    /\ OpsOf(1) = <<"initialize_beliefs", "forward_loop", "minimize">>

\* C7: the two belief initializations exclude each other over the whole
\* call: with measurement_initialize only virtual_sensor_initialize_beliefs
\* is called, with the observations of time index 0; without it only
\* initialize_beliefs is called.  With measurement_initialize and a model
\* that is no virtual sensor EKF the call ends on the first batch before any
\* forward_loop or minimize call.
C7_ExclusiveInit ==
    /\ \A p \in 1..Len(trace) :
          trace[p].op \in InitOps =>
              (trace[p].op = "virtual_sensor_initialize_beliefs"
                  <=> measurement_initialize)
    /\ (measurement_initialize /\ pc \in {"forward", "minimize", "log"}) =>
          /\ InitializedHere
          /\ init_call.op = "virtual_sensor_initialize_beliefs"
          /\ init_call.observations =
                [n \in 1..BatchN |-> batch_data.observations[n][1]]
    /\ (measurement_initialize /\ ~filter_model.is_vsekf) =>
          /\ batch_idx <= 0
          /\ pc \notin {"forward", "minimize", "log", "done"}
          /\ trace = <<>> /\ minimize_calls = <<>>
          /\ forward_call = NoCall /\ init_call = NoCall
          /\ (pc = "aborted" /\ batch_idx = 0 /\ error \notin BatchErrors
              /\ error /= "AssertionError: batch_size")
                => error = "AssertionError: Only supported for virtual sensor EKFs!"
C7_Witness ==
    /\ measurement_initialize
    /\ ~filter_model.is_vsekf
    /\ pc = "aborted"
    /\ batch_idx = 0
    /\ error = "AssertionError: Only supported for virtual sensor EKFs!"
C7_WitnessVirtualSensor ==
    /\ measurement_initialize
    /\ pc = "log"
    /\ batch_idx = 1

\* C8: the loss is aligned in time.  The batch is swapped from (N, T, ...)
\* to (T, N, ...), element [n][t] becoming element [t][n]; forward_loop gets
\* the observations and controls of time indices 1..T-1; its result has
\* shape (T-1, N, state_dim) when the loss is taken; prediction i is compared
\* with the ground-truth state of time index i+1, and the state of time
\* index 0 is no part of the target.
C8_Aligned ==
    /\ batch_idx >= 0 =>
          /\ Len(states_labels) = BatchT
          /\ \A t \in 1..BatchT :
                states_labels[t] = [n \in 1..BatchN |-> batch_data.states[n][t]]
          /\ \A t \in 1..Len(observations) : \A n \in 1..Len(observations[t]) :
                observations[t][n] = batch_data.observations[n][t]
          /\ \A t \in 1..Len(controls) : \A n \in 1..Len(controls[t]) :
                controls[t][n] = batch_data.controls[n][t]
    /\ ForwardedHere =>
          /\ forward_call.observations =
                [i \in 1..(BatchT - 1) |->
                    [n \in 1..BatchN |-> batch_data.observations[n][i + 1]]]
          /\ forward_call.controls =
                [i \in 1..(BatchT - 1) |->
                    [n \in 1..BatchN |-> batch_data.controls[n][i + 1]]]
    /\ pc \in {"minimize", "log"} =>
          Shape3(state_predictions) = <<BatchT - 1, BatchN, filter_model.state_dim>>
    /\ pc = "log" =>
          /\ loss_call.input = state_predictions
          /\ loss_call.target =
                [i \in 1..(BatchT - 1) |->
                    [n \in 1..BatchN |-> batch_data.states[n][i + 1]]]
          /\ \A i \in 1..Len(loss_call.target) : \A n \in 1..BatchN :
                loss_call.target[i][n] /= batch_data.states[n][1]
C8_Witness ==
    /\ pc = "log"
    /\ BatchT = 3
    /\ BatchN = 2
    /\ batch_idx = 1

\* C9: a per-batch assertion failure at batch index k (state_dim,
\* observations, controls, or the shape of forward_loop's result) ends the
\* call with nothing undone and nothing retried: exactly the k gradient
\* steps of batches 0..k-1 have been taken, no minimize or log_scalar call
\* was made for batch k, the epoch loss is not printed, and no batch that
\* fails an assertion reaches its gradient step.
C9_AbortKeepsSteps ==
    /\ (pc = "aborted" /\ error \in BatchErrors) =>
          /\ batch_idx >= 0
          /\ Len(minimize_calls) = batch_idx
          /\ \A i \in 1..Len(minimize_calls) : minimize_calls[i].idx = i - 1
          /\ \A j \in 1..Len(log_calls) : log_calls[j].idx < batch_idx
          /\ \A p \in 1..Len(trace) :
                trace[p].op \in {"minimize", "log_scalar"} => trace[p].idx < batch_idx
          /\ stdout = <<>>
    /\ InBody => BatchPasses
    /\ pc \in {"minimize", "log"} =>
          Shape3(state_predictions) = <<BatchT - 1, BatchN, filter_model.state_dim>>
    /\ (pc = "aborted" /\ error = "AssertionError: state_predictions") =>
          Shape3(state_predictions) /= <<BatchT - 1, BatchN, filter_model.state_dim>>
    /\ (pc = "aborted" /\ error \in BatchErrors \ {"AssertionError: state_predictions"})
          => ~BatchPasses
C9_Witness ==
    /\ pc = "aborted"
    /\ error = "AssertionError: state_predictions"
    /\ batch_idx = 2
    /\ Len(minimize_calls) = 2
C9_WitnessShape ==
    /\ pc = "aborted"
    /\ error = "AssertionError: controls"
    /\ batch_idx = 1

\* C10: the batch-size check is made on the first batch only.  A batch 0
\* that does not hold dataloader.batch_size trajectories ends the call before
\* any belief initialization or gradient step; a later batch is never
\* rejected for its number of trajectories.
C10_FirstBatchSize ==
    /\ (pc = "aborted" /\ error = "AssertionError: batch_size") =>
          /\ batch_idx = 0
          /\ BatchN /= dataloader.batch_size
    /\ (batch_idx = 0 /\ BatchN /= dataloader.batch_size) =>
          /\ pc = "aborted"
          /\ error \in AssertionErrors
          /\ trace = <<>> /\ minimize_calls = <<>>
          /\ init_call = NoCall
    /\ (batch_idx >= 1 /\ pc = "aborted" /\ BatchPasses) =>
          error = "AssertionError: state_predictions"
C10_Witness ==
    /\ batch_idx >= 1
    /\ BatchN < dataloader.batch_size
    /\ pc = "log"
C10_WitnessAbort ==
    /\ pc = "aborted"
    /\ error = "AssertionError: batch_size"
    /\ BatchN < dataloader.batch_size
====
